---- MODULE Spec2Model ----
(***************************************************************************)
(* Model of data_cleaning_module.py: the two outlier-removing transformers *)
(* OutlierStdRemove and OutlierIQRRemove (fit / transform over a pandas    *)
(* DataFrame) and ModelComparer.compare (split, raw branch, processed      *)
(* branch, result table).                                                  *)
(*                                                                         *)
(* Numbers.  pandas computes in floating point; the model computes the     *)
(* same formulas exactly.  A rational is <<n, d>> in lowest terms, d > 0.  *)
(* A bound is either NaN or the real number a + s * sqrt(r), with a and r  *)
(* rationals, r >= 0 and s in {-1, 0, 1} (s = 0 exactly when r = 0), which *)
(* is the shape of mean -/+ factor * std and of Q1 - factor * IQR.         *)
(***************************************************************************)
EXTENDS Integers, Sequences, FiniteSets, TLC

VARIABLES est, fitCalled, data, call, comparer, dsX, dsY,
          afterSplit, afterRaw, afterFit, afterRealign, run

vars == <<est, fitCalled, data, call, comparer, dsX, dsY,
          afterSplit, afterRaw, afterFit, afterRealign, run>>

estVars == <<est, fitCalled, data, call>>

comparerVars ==
    <<comparer, dsX, dsY, afterSplit, afterRaw, afterFit, afterRealign, run>>

(***************************************************************************)
(* Bounds of the model.                                                    *)
(***************************************************************************)
\* longest table handed to fit / transform
MaxRows == 3
\* longest dataset handed to compare
MaxSamples == 4

\* cell values of the numeric columns
Values == {0, 1}
\* columns every input table has
TableCols == {"a", "b"}
\* the column of the datasets handed to compare
SampleCols == {"a"}

(***************************************************************************)
(* Exact arithmetic.                                                       *)
(***************************************************************************)
Abs(n) == IF n < 0 THEN -n ELSE n

Sign(n) == IF n < 0 THEN -1 ELSE IF n = 0 THEN 0 ELSE 1

RECURSIVE Gcd(_, _)
Gcd(m, n) == IF n = 0 THEN m ELSE Gcd(n, m % n)

\* the rational n / d (d # 0) in lowest terms with a positive denominator
Rat(n, d) ==
    LET g == Gcd(Abs(n), Abs(d))
        sg == IF d < 0 THEN -1 ELSE 1
    IN  <<(sg * n) \div g, (sg * d) \div g>>

RInt(n) == <<n, 1>>
RAdd(p, q) == Rat(p[1] * q[2] + q[1] * p[2], p[2] * q[2])
RSub(p, q) == Rat(p[1] * q[2] - q[1] * p[2], p[2] * q[2])
RMul(p, q) == Rat(p[1] * q[1], p[2] * q[2])
RLe(p, q) == p[1] * q[2] <= q[1] * p[2]

NaN == [nan |-> TRUE]
IsNaN(x) == x.nan

\* the real a + s * sqrt(r), in canonical form
Real(a, s, r) ==
    [nan |-> FALSE, a |-> a, s |-> IF r[1] = 0 THEN 0 ELSE s,
     r |-> IF s = 0 THEN RInt(0) ELSE r]

\* d <= k * sqrt(r) for a rational d, an integer k and a rational r >= 0
LeRoot(d, k, r) ==
    LET d2 == RMul(d, d)
        k2r == RMul(RInt(k * k), r)
    IN  IF k >= 0 THEN RLe(d, RInt(0)) \/ RLe(d2, k2r)
        ELSE RLe(d, RInt(0)) /\ RLe(k2r, d2)

\* x <= y for two bounds; any comparison with NaN is false, as in IEEE 754.
\* Both bounds of one column share their radicand, or have none.
RealLe(x, y) ==
    IF IsNaN(x) \/ IsNaN(y) THEN FALSE
    ELSE LET r == IF y.s = 0 THEN x.r ELSE y.r
         IN  LeRoot(RSub(x.a, y.a), y.s - x.s, r)

FromInt(v) == Real(RInt(v), 0, RInt(0))


\* x * f for a bound x and a rational f
RealMulRat(x, f) ==
    IF IsNaN(x) THEN NaN
    ELSE Real(RMul(x.a, f), x.s * Sign(f[1]), RMul(x.r, RMul(f, f)))

\* x - y; at most one of the two carries a square root
RealSub(x, y) ==
    IF IsNaN(x) \/ IsNaN(y) THEN NaN
    ELSE IF y.s = 0 THEN Real(RSub(x.a, y.a), x.s, x.r)
    ELSE Real(RSub(x.a, y.a), -y.s, y.r)

\* x + y; at most one of the two carries a square root
RealAdd(x, y) ==
    IF IsNaN(x) \/ IsNaN(y) THEN NaN
    ELSE IF y.s = 0 THEN Real(RAdd(x.a, y.a), x.s, x.r)
    ELSE Real(RAdd(x.a, y.a), y.s, y.r)

(***************************************************************************)
(* Tables.  A DataFrame is [cols, rows]: the set of its column names and   *)
(* the sequence of its rows, each row [id, v] with its index label and its *)
(* cells.  A Series of labels is a sequence of [id, label].                *)
(***************************************************************************)
Row(id, v) == [id |-> id, v |-> v]

EmptyTable(cols) == [cols |-> cols, rows |-> <<>>]

NoTable == EmptyTable({})

NRows(T) == Len(T.rows)

Column(T, col) == [i \in 1..Len(T.rows) |-> T.rows[i].v[col]]

Range(s) == {s[i] : i \in DOMAIN s}

RECURSIVE SumSeq(_)
SumSeq(xs) == IF xs = <<>> THEN 0 ELSE Head(xs) + SumSeq(Tail(xs))

SumSq(xs) == SumSeq([i \in DOMAIN xs |-> xs[i] * xs[i]])

RECURSIVE Insert(_, _)
Insert(v, xs) ==
    IF xs = <<>> THEN <<v>>
    ELSE IF v <= Head(xs) THEN <<v>> \o xs
    ELSE <<Head(xs)>> \o Insert(v, Tail(xs))

RECURSIVE Sorted(_)
Sorted(xs) == IF xs = <<>> THEN <<>> ELSE Insert(Head(xs), Sorted(Tail(xs)))

(***************************************************************************)
(* pandas reductions over one column (NaN-free cells).                     *)
(***************************************************************************)
\* Series.mean(): NaN over no rows
Mean(xs) ==
    IF Len(xs) = 0 THEN NaN
    ELSE Real(Rat(SumSeq(xs), Len(xs)), 0, RInt(0))

\* Series.std(): the sample standard deviation (ddof = 1), NaN under 2 rows
Std(xs) ==
    LET n == Len(xs)
        S == SumSeq(xs)
    IN  IF n < 2 THEN NaN
        ELSE Real(RInt(0), 1, Rat(n * SumSq(xs) - S * S, n * (n - 1)))

\* Series.quantile(qn / qd): linear interpolation between order statistics
Quantile(xs, qn, qd) ==
    LET n == Len(xs)
        srt == Sorted(xs)
        lo == ((n - 1) * qn) \div qd
        rem == ((n - 1) * qn) % qd
    IN  IF n = 0 THEN NaN
        ELSE IF rem = 0 THEN FromInt(srt[lo + 1])
        ELSE Real(RAdd(RInt(srt[lo + 1]),
                       RMul(Rat(rem, qd), RInt(srt[lo + 2] - srt[lo + 1]))),
                  0, RInt(0))

(***************************************************************************)
(* The estimators.  An estimator object is [kind, columns, factor,         *)
(* bounds_]: bounds_ is a dict, a function from column names to            *)
(* <<lower, upper>>, empty after construction.                             *)
(***************************************************************************)
EmptyDict == [c \in {} |-> <<NaN, NaN>>]

\* __init__ of both classes
NewEstimator(kind, columns, factor) ==
    [kind |-> kind, columns |-> columns, factor |-> factor, bounds_ |-> EmptyDict]

\* factor defaults of the two constructors
DefaultStdFactor == <<3, 1>>
DefaultIQRFactor == <<3, 2>>

\* X[self.columns] raises KeyError when a listed column is not in X
HasColumns(T, columns) == Range(columns) \subseteq T.cols

\* OutlierStdRemove.fit with the two bounds exchanged
OutlierStdRemove_fit_swapped(self, T) ==
    IF ~HasColumns(T, self.columns) THEN [raised |-> TRUE, self |-> self]
    ELSE [raised |-> FALSE,
          self |-> [self EXCEPT !.bounds_ =
                       [c \in Range(self.columns) |->
                           <<RealAdd(Mean(Column(T, c)),
                                     RealMulRat(Std(Column(T, c)), self.factor)),
                             RealSub(Mean(Column(T, c)),
                                     RealMulRat(Std(Column(T, c)), self.factor))>>]]]

OutlierStdRemove_fit(self, T) ==
    IF ~HasColumns(T, self.columns) THEN [raised |-> TRUE, self |-> self]
    ELSE LET means == [c \in Range(self.columns) |-> Mean(Column(T, c))]
             stds == [c \in Range(self.columns) |-> Std(Column(T, c))]
             lower_bounds == [c \in Range(self.columns) |->
                                 RealSub(means[c], RealMulRat(stds[c], self.factor))]
             upper_bounds == [c \in Range(self.columns) |->
                                 RealAdd(means[c], RealMulRat(stds[c], self.factor))]
         IN  [raised |-> FALSE,
              self |-> [self EXCEPT !.bounds_ =
                           [c \in Range(self.columns) |->
                               <<lower_bounds[c], upper_bounds[c]>>]]]

OutlierIQRRemove_fit(self, T) ==
    IF ~HasColumns(T, self.columns) THEN [raised |-> TRUE, self |-> self]
    ELSE LET Q1 == [c \in Range(self.columns) |-> Quantile(Column(T, c), 1, 4)]
             Q3 == [c \in Range(self.columns) |-> Quantile(Column(T, c), 3, 4)]
             IQR == [c \in Range(self.columns) |-> RealSub(Q3[c], Q1[c])]
             lower_bounds == [c \in Range(self.columns) |->
                                 RealSub(Q1[c], RealMulRat(IQR[c], self.factor))]
             upper_bounds == [c \in Range(self.columns) |->
                                 RealAdd(Q3[c], RealMulRat(IQR[c], self.factor))]
         IN  [raised |-> FALSE,
              self |-> [self EXCEPT !.bounds_ =
                           [c \in Range(self.columns) |->
                               <<lower_bounds[c], upper_bounds[c]>>]]]

\* KeepRows with the upper bound exclusive (<= written as <)
KeepRowsExclusiveUpper(T, col, lower, upper) ==
    [T EXCEPT !.rows =
        SelectSeq(T.rows, LAMBDA r : RealLe(lower, FromInt(r.v[col]))
                                     /\ RealLe(FromInt(r.v[col]), upper)
                                     /\ FromInt(r.v[col]) # upper)]

\* X_transformed[(X_transformed[col] >= lower) & (X_transformed[col] <= upper)]
KeepRows(T, col, lower, upper) ==
    [T EXCEPT !.rows =
        SelectSeq(T.rows, LAMBDA r : RealLe(lower, FromInt(r.v[col]))
                                     /\ RealLe(FromInt(r.v[col]), upper))]

\* FilterLoop reading the bounds with dict.get: a column without bounds is skipped
RECURSIVE FilterLoopSkipMissing(_, _, _)
FilterLoopSkipMissing(bounds_, columns, T) ==
    IF columns = <<>> THEN [raised |-> FALSE, value |-> T]
    ELSE LET col == Head(columns)
         IN  IF col \notin DOMAIN bounds_ \/ col \notin T.cols
             THEN FilterLoopSkipMissing(bounds_, Tail(columns), T)
             ELSE FilterLoopSkipMissing(bounds_, Tail(columns),
                             KeepRows(T, col, bounds_[col][1], bounds_[col][2]))

\* the for loop of transform: one column after the other narrows the table;
\* self.bounds_[col] and X_transformed[col] raise KeyError on a missing key
RECURSIVE FilterLoop(_, _, _)
FilterLoop(bounds_, columns, T) ==
    IF columns = <<>> THEN [raised |-> FALSE, value |-> T]
    ELSE LET col == Head(columns)
         IN  IF col \notin DOMAIN bounds_ \/ col \notin T.cols
             THEN [raised |-> TRUE, value |-> EmptyTable({})]
             ELSE FilterLoop(bounds_, Tail(columns),
                             KeepRows(T, col, bounds_[col][1], bounds_[col][2]))

\* OutlierStdRemove.transform taking the bounds from its own argument
OutlierStdRemove_transform_refit(self, T) ==
    LET fitted == OutlierStdRemove_fit(self, T)
        res == FilterLoop(fitted.self.bounds_, self.columns, T)
    IN  [raised |-> fitted.raised \/ res.raised, value |-> res.value,
         self |-> self, arg |-> T]

\* OutlierIQRRemove.transform without X.copy(), narrowing the caller's table
OutlierIQRRemove_transform_inplace(self, T) ==
    LET res == FilterLoop(self.bounds_, self.columns, T)
    IN  [raised |-> res.raised, value |-> res.value, self |-> self,
         arg |-> IF res.raised THEN T ELSE res.value]

\* transform returns a new table; self and the argument are left as they were
OutlierStdRemove_transform(self, T) ==
    LET X_transformed == T
        res == FilterLoop(self.bounds_, self.columns, X_transformed)
    IN  [raised |-> res.raised, value |-> res.value, self |-> self, arg |-> T]

OutlierIQRRemove_transform(self, T) ==
    LET X_transformed == T
        res == FilterLoop(self.bounds_, self.columns, X_transformed)
    IN  [raised |-> res.raised, value |-> res.value, self |-> self, arg |-> T]

\* method dispatch on the object's class
Fit(self, T) ==
    IF self.kind = "std" THEN OutlierStdRemove_fit(self, T)
    ELSE OutlierIQRRemove_fit(self, T)

Transform(self, T) ==
    IF self.kind = "std" THEN OutlierStdRemove_transform(self, T)
    ELSE OutlierIQRRemove_transform(self, T)


(***************************************************************************)
(* ModelComparer: the objects it holds and the collaborators it calls.     *)
(***************************************************************************)
\* an unfit model (anything with fit and score); this one learns the largest
\* training label and scores the share of test labels that do not exceed it
NewModel == [kind |-> "model", fitted |-> FALSE, learned |-> -1]

\* preprocessor=None
None == [kind |-> "None"]

\* a Pipeline with no steps: an object whose __len__ is 0
EmptyPipeline == [kind |-> "pipeline", steps |-> <<>>]

\* ModelComparer.__init__
\* line 95: results_ is None until a call assigns a table t, held as <<t>>
NoResults == <<>>

NewComparer(model, preprocessor) ==
    [model |-> model, preprocessor |-> preprocessor, results_ |-> NoResults]

\* bool(obj): None is false, and so is an object whose __len__ returns 0
Truthy(obj) ==
    /\ obj.kind # "None"
    /\ ~(obj.kind = "pipeline" /\ Len(obj.steps) = 0)

RECURSIVE MaxLabel(_)
MaxLabel(ys) ==
    IF ys = <<>> THEN -1
    ELSE LET m == MaxLabel(Tail(ys))
         IN  IF Head(ys).label > m THEN Head(ys).label ELSE m

\* model.fit(X, y): raises on no rows and on X and y of different lengths
ModelFit(m, T, ys) ==
    IF NRows(T) = 0 \/ NRows(T) # Len(ys) THEN [raised |-> TRUE, self |-> m]
    ELSE [raised |-> FALSE,
          self |-> [m EXCEPT !.fitted = TRUE, !.learned = MaxLabel(ys)]]

\* model.score(X, y)
ModelScore(m, T, ys) ==
    IF ~m.fitted \/ NRows(T) = 0 \/ NRows(T) # Len(ys)
    THEN [raised |-> TRUE, value |-> RInt(0)]
    ELSE [raised |-> FALSE,
          value |-> Rat(Cardinality({i \in DOMAIN ys : ys[i].label <= m.learned}),
                        Len(ys))]

\* sklearn.base.clone: a new object built from the constructor parameters
CloneObject(obj) ==
    IF obj.kind = "model" THEN NewModel
    ELSE IF obj.kind \in {"std", "iqr"}
         THEN NewEstimator(obj.kind, obj.columns, obj.factor)
    ELSE obj

\* the shuffle of train_test_split: a permutation of 1..n fixed by the seed
Perm(random_state, n) == [i \in 1..n |-> ((i - 1 + random_state) % n) + 1]

\* train_test_split(X, y, test_size=tn/td, random_state): the first
\* ceil(test_size * n) shuffled rows are the test partition, the rest the
\* training partition; raises when a partition would be empty
TrainTestSplit(T, ys, test_size, random_state) ==
    LET n == NRows(T)
        tn == test_size[1]
        td == test_size[2]
        n_test == (n * tn + td - 1) \div td
        n_train == n - n_test
        perm == Perm(random_state, n)
        test == [i \in 1..n_test |-> perm[i]]
        train == [i \in 1..n_train |-> perm[n_test + i]]
    IN  IF n = 0 \/ Len(ys) # n \/ tn <= 0 \/ tn >= td \/ n_train = 0
        THEN [raised |-> TRUE, X_train |-> NoTable, X_test |-> NoTable,
              y_train |-> <<>>, y_test |-> <<>>]
        ELSE [raised |-> FALSE,
              X_train |-> [T EXCEPT !.rows = [i \in 1..n_train |-> T.rows[train[i]]]],
              X_test |-> [T EXCEPT !.rows = [i \in 1..n_test |-> T.rows[test[i]]]],
              y_train |-> [i \in 1..n_train |-> ys[train[i]]],
              y_test |-> [i \in 1..n_test |-> ys[test[i]]]]

Index(T) == [i \in 1..NRows(T) |-> T.rows[i].id]

\* the labels re-aligned by position: the first len(index) entries of y
LocPositional(ys, index) ==
    [raised |-> FALSE, value |-> SubSeq(ys, 1, Len(index))]

\* y.loc[index]: for each label of index in turn, every entry of y that
\* carries it; KeyError when y has none
RECURSIVE Loc(_, _)
Loc(ys, index) ==
    IF index = <<>> THEN [raised |-> FALSE, value |-> <<>>]
    ELSE LET hit == SelectSeq(ys, LAMBDA e : e.id = Head(index))
             rest == Loc(ys, Tail(index))
         IN  IF hit = <<>> \/ rest.raised THEN [raised |-> TRUE, value |-> <<>>]
             ELSE [raised |-> FALSE, value |-> hit \o rest.value]

(***************************************************************************)
(* ModelComparer.compare.  A call is a record r threaded through the steps *)
(* of the method: its locals, the objects it can reach (heap: 1 is         *)
(* self.model, 2 is self.preprocessor, clones follow) and the calls it     *)
(* made on them (log).  stage is "running", "done" or "raised"; a step     *)
(* does nothing once the call has raised.  The steps run one after the     *)
(* other within one Compare action; afterSplit, afterRaw, afterFit and     *)
(* afterRealign hold the call as each step left it, run as it ended.       *)
(***************************************************************************)
StartCompare(self, test_size, random_state) ==
    [stage |-> "running", error |-> "", test_size |-> test_size,
     random_state |-> random_state,
     heap |-> <<self.model, self.preprocessor>>, log |-> <<>>, ret |-> 0,
     X_train |-> NoTable, X_test |-> NoTable, y_train |-> <<>>, y_test |-> <<>>,
     raw_model |-> 0, processor |-> 0, processed_model |-> 0,
     X_train_processed |-> NoTable, X_test_processed |-> NoTable,
     y_train_processed |-> <<>>, y_test_processed |-> <<>>, realigned |-> FALSE,
     results |-> <<>>]

Raise(r, error) == [r EXCEPT !.stage = "raised", !.error = error]

Logged(r, op, obj, arg) ==
    [r EXCEPT !.log = Append(@, [op |-> op, obj |-> obj, arg |-> arg])]

\* clone(obj) used without a copy: the caller gets the object itself
SklearnCloneAlias(r, src) ==
    [Logged(r, "clone", src, NoTable) EXCEPT !.ret = src]

\* clone(heap[src]): the new object is r.ret
SklearnClone(r, src) ==
    [Logged(r, "clone", Len(r.heap) + 1, NoTable) EXCEPT
        !.heap = Append(@, CloneObject(@[src])), !.ret = Len(r.heap) + 1]

\* obj.fit(X, y) on a model of the heap
CallModelFit(r, obj, T, ys, error) ==
    LET res == ModelFit(r.heap[obj], T, ys)
        r1 == [Logged(r, "fit", obj, T) EXCEPT !.heap[obj] = res.self]
    IN  IF res.raised THEN Raise(r1, error) ELSE r1

\* lines 99-101
StepSplit(r, T, ys) ==
    LET sp == TrainTestSplit(T, ys, r.test_size, r.random_state)
    IN  IF sp.raised THEN Raise(r, "split")
        ELSE [r EXCEPT !.X_train = sp.X_train, !.X_test = sp.X_test,
                       !.y_train = sp.y_train, !.y_test = sp.y_test]

Result(dataset, score, train, test) ==
    [Dataset |-> dataset, Model_Score |-> score, Train_Samples |-> NRows(train),
     Test_Samples |-> NRows(test)]

\* lines 104-111
StepRaw(r) ==
    IF r.stage # "running" THEN r
    ELSE LET r1 == SklearnClone(r, 1)
             raw_model == r1.ret
             r2 == CallModelFit([r1 EXCEPT !.raw_model = raw_model], raw_model,
                                r.X_train, r.y_train, "raw_model.fit")
             sc == ModelScore(r2.heap[raw_model], r.X_test, r.y_test)
             r3 == Logged(r2, "score", raw_model, r.X_test)
         IN  IF r2.stage # "running" THEN r2
             ELSE IF sc.raised THEN Raise(r3, "raw_model.score")
             ELSE [r3 EXCEPT !.results =
                      <<Result("Raw", sc.value, r.X_train, r.X_test)>>]

\* the table the preprocessor is fit on fed the whole dataset
PreprocessorFitInputLeaky(T, X_train, X_test) == T

\* line 117: processor.fit(X_train)
PreprocessorFitInput(T, X_train, X_test) == X_train

\* lines 115-121
StepPreprocess(r, T) ==
    IF r.stage # "running" THEN r
    ELSE LET r1 == SklearnClone(r, 2)
             processor == r1.ret
             fit_arg == PreprocessorFitInput(T, r.X_train, r.X_test)
             ft == Fit(r1.heap[processor], fit_arg)
             r2 == [Logged(r1, "fit", processor, fit_arg) EXCEPT
                       !.processor = processor, !.heap[processor] = ft.self]
             tr == Transform(ft.self, r.X_train)
             r3 == [Logged(r2, "transform", processor, r.X_train) EXCEPT
                       !.heap[processor] = tr.self, !.X_train = tr.arg]
             te == Transform(tr.self, r.X_test)
             r4 == [Logged(r3, "transform", processor, r.X_test) EXCEPT
                       !.heap[processor] = te.self, !.X_test = te.arg]
         IN  IF ft.raised THEN Raise(r2, "processor.fit")
             ELSE IF tr.raised THEN Raise(r3, "processor.transform")
             ELSE IF te.raised THEN Raise(r4, "processor.transform")
             ELSE [r4 EXCEPT !.X_train_processed = tr.value,
                             !.X_test_processed = te.value]

\* lines 124-125
StepRealign(r) ==
    IF r.stage # "running" THEN r
    ELSE LET tr == Loc(r.y_train, Index(r.X_train_processed))
             te == Loc(r.y_test, Index(r.X_test_processed))
         IN  IF tr.raised \/ te.raised THEN Raise(r, "y.loc")
             ELSE [r EXCEPT !.y_train_processed = tr.value,
                            !.y_test_processed = te.value, !.realigned = TRUE]

\* lines 128-135
StepProcessed(r) ==
    IF r.stage # "running" THEN r
    ELSE LET r1 == SklearnClone(r, 1)
             processed_model == r1.ret
             r2 == CallModelFit([r1 EXCEPT !.processed_model = processed_model],
                                processed_model, r.X_train_processed,
                                r.y_train_processed, "processed_model.fit")
             sc == ModelScore(r2.heap[processed_model], r.X_test_processed,
                              r.y_test_processed)
             r3 == Logged(r2, "score", processed_model, r.X_test_processed)
         IN  IF r2.stage # "running" THEN r2
             ELSE IF sc.raised THEN Raise(r3, "processed_model.score")
             ELSE [r3 EXCEPT !.results =
                      Append(@, Result("Processed", sc.value, r.X_train_processed,
                                       r.X_test_processed))]

\* line 114: if self.preprocessor
TakesProcessedBranch(self) == Truthy(self.preprocessor)

\* the method body ran to its end
StepEnd(r) == IF r.stage = "running" THEN [r EXCEPT !.stage = "done"] ELSE r

\* self.results_ assigned before the processed branch has run
ResultsAfterEager(old, r) ==
    IF r.results # <<>> THEN <<r.results>> ELSE old

\* line 137: self.results_ is assigned once, after both branches
ResultsAfter(old, r) == IF r.stage = "done" THEN <<r.results>> ELSE old

\* the comparer after the call: its attributes are the objects 1 and 2
ComparerAfter(self, r) ==
    [model |-> r.heap[1], preprocessor |-> r.heap[2],
     results_ |-> ResultsAfter(self.results_, r)]

(***************************************************************************)
(* Calls on one estimator object.  est is the object, fitCalled whether    *)
(* fit was ever called on it, data the table the caller holds, call the    *)
(* last fit or transform call: its argument and what it returned.          *)
(***************************************************************************)
Kinds == {"std", "iqr"}

\* "c" is a column no table has
ColumnLists == {<<>>, <<"a">>, <<"a", "b">>, <<"c">>}

Factors(kind) ==
    {<<-1, 1>>, <<0, 1>>, <<1, 1>>,
     IF kind = "std" THEN DefaultStdFactor ELSE DefaultIQRFactor}

NoCall == [op |-> "none", arg |-> NoTable, raised |-> FALSE, value |-> NoTable]

NoRun ==
    [StartCompare(NewComparer(NewModel, None), <<0, 1>>, 0) EXCEPT !.stage = "none"]

ComparerIdle ==
    /\ comparer = NewComparer(NewModel, None)
    /\ dsX = EmptyTable(SampleCols)
    /\ dsY = <<>>
    /\ afterSplit = NoRun
    /\ afterRaw = NoRun
    /\ afterFit = NoRun
    /\ afterRealign = NoRun
    /\ run = NoRun

Init ==
    /\ \E kind \in Kinds : \E columns \in ColumnLists : \E factor \in Factors(kind) :
          est = NewEstimator(kind, columns, factor)
    /\ fitCalled = FALSE
    /\ data = EmptyTable(TableCols)
    /\ call = NoCall
    /\ ComparerIdle

\* the caller adds a row (RangeIndex: the row's label is its position)
AppendRow(va, vb) ==
    /\ NRows(data) < MaxRows
    /\ data' = [data EXCEPT !.rows =
                   Append(@, Row(NRows(data), [c \in TableCols |->
                                                  IF c = "a" THEN va ELSE vb]))]
    /\ call' = NoCall
    /\ UNCHANGED <<est, fitCalled, comparerVars>>

\* est.fit(data)
FitCall ==
    LET res == Fit(est, data)
    IN  /\ est' = res.self
        /\ fitCalled' = TRUE
        /\ call' = [op |-> "fit", arg |-> data, raised |-> res.raised,
                    value |-> NoTable]
        /\ UNCHANGED <<data, comparerVars>>

\* est.transform(data)
TransformCall ==
    LET res == Transform(est, data)
    IN  /\ est' = res.self
        /\ data' = res.arg
        /\ call' = [op |-> "transform", arg |-> data, raised |-> res.raised,
                    value |-> res.value]
        /\ UNCHANGED <<fitCalled, comparerVars>>

\* est.transform(out) on the table the last transform returned
TransformAgain ==
    /\ call.op = "transform"
    /\ ~call.raised
    /\ LET res == Transform(est, call.value)
       IN  /\ est' = res.self
           /\ call' = [op |-> "transform", arg |-> call.value,
                       raised |-> res.raised, value |-> res.value]
    /\ UNCHANGED <<fitCalled, data, comparerVars>>

Next ==
    \/ \E va \in Values : \E vb \in Values : AppendRow(va, vb)
    \/ FitCall
    \/ TransformCall
    \/ TransformAgain

Spec == Init /\ [][Next]_vars


(***************************************************************************)
(* Properties of fit and transform, checked under Spec.                    *)
(***************************************************************************)
\* lower <= v <= upper, for a stored pair of bounds
InBounds(v, b) == RealLe(b[1], FromInt(v)) /\ RealLe(FromInt(v), b[2])

Returned == call.op = "transform" /\ ~call.raised

\* est.bounds_ is what a fit on the table just transformed stores
FittedOnArg == fitCalled /\ est.bounds_ = Fit(est, call.arg).self.bounds_

\* C1: a transform call that returns, returns exactly the rows of its
\* argument whose value in every monitored column lies within that column's
\* stored [lower, upper], bounds included, in the argument's order: no
\* returned row violates a bound and every dropped row violates one.
C1_TransformKeepsExactlyRowsInBounds ==
    Returned =>
        /\ call.value.cols = call.arg.cols
        /\ call.value.rows =
              SelectSeq(call.arg.rows,
                        LAMBDA r : \A c \in Range(est.columns) :
                                       InBounds(r.v[c], est.bounds_[c]))

\* fit(T) and then transform(T) on a table of which a row is dropped by the
\* second monitored column only and a row sitting on a bound is kept
C1_Witness ==
    /\ Returned
    /\ FittedOnArg
    /\ est.columns = <<"a", "b">>
    /\ 0 < NRows(call.value)
    /\ NRows(call.value) < NRows(call.arg)
    /\ \E i \in 1..NRows(call.arg) :
          /\ InBounds(call.arg.rows[i].v["a"], est.bounds_["a"])
          /\ ~InBounds(call.arg.rows[i].v["b"], est.bounds_["b"])
    /\ \E i \in 1..NRows(call.value) :
          FromInt(call.value.rows[i].v["a"]) = est.bounds_["a"][2]

\* C4: transform applied to the table the previous transform returned,
\* under the same bounds_, returns that table again.
C4_TransformIdempotent ==
    [][(/\ Returned
        /\ call'.op = "transform"
        /\ call'.arg = call.value
        /\ est' = est)
       => (~call'.raised /\ call'.value = call.value)]_vars

\* a second transform of the output of a transform that had dropped rows
C4_Witness ==
    /\ Returned
    /\ fitCalled
    /\ call.arg # data
    /\ call.value = call.arg
    /\ 0 < NRows(call.arg)
    /\ NRows(call.arg) < NRows(data)

\* C5 as stated: transform on an estimator on which fit was never called
\* raises, whatever the columns list and the table.
C5_Original_TransformBeforeFitRaises ==
    (call.op = "transform" /\ ~fitCalled) => call.raised

\* C5 amended: transform on an estimator on which fit was never called
\* raises when the columns list is not empty.
C5_TransformBeforeFitRaisesIfColumns ==
    (call.op = "transform" /\ ~fitCalled /\ est.columns # <<>>) => call.raised

\* transform of a non-empty table by a never-fitted estimator watching "a"
C5_Witness ==
    /\ call.op = "transform"
    /\ ~fitCalled
    /\ est.columns = <<"a">>
    /\ NRows(call.arg) > 0
    /\ call.raised

FitReturned == call.op = "fit" /\ ~call.raised

\* the column's standard deviation (its IQR) is zero
SpreadIsZero(kind, xs) ==
    IF kind = "std" THEN \A i, j \in DOMAIN xs : xs[i] = xs[j]
    ELSE Quantile(xs, 1, 4) = Quantile(xs, 3, 4)

\* rows below which the column's statistics are NaN
MinRowsFor(kind) == IF kind = "std" THEN 2 ELSE 1

C8_TransformIsPure ==
    [][/\ (call'.op = "transform" => (est' = est /\ data' = data))
       /\ (est'.bounds_ # est.bounds_ => call'.op = "fit")
       /\ (est'.columns = est.columns /\ est'.factor = est.factor)]_vars

\* a transform that dropped rows from the caller's table, after a fit
C8_Witness ==
    /\ Returned
    /\ fitCalled
    /\ call.arg = data
    /\ NRows(call.value) < NRows(data)
    /\ est.bounds_ # EmptyDict


(***************************************************************************)
(* Calls of compare on one ModelComparer over one dataset (dsX, dsY).      *)
(* run is the last call.                                                   *)
(***************************************************************************)
\* defaults of compare
DefaultTestSize == <<1, 5>>
DefaultRandomState == 42

TestSizes == {DefaultTestSize, <<1, 2>>}

RandomStates == {DefaultRandomState, 7}

Preprocessors ==
    {None, EmptyPipeline,
     NewEstimator("std", <<"a">>, <<1, 1>>),
     NewEstimator("std", <<"a">>, DefaultStdFactor),
     NewEstimator("iqr", <<"a">>, DefaultIQRFactor),
     NewEstimator("iqr", <<"c">>, DefaultIQRFactor)}

\* the index of a dataset of n rows: 0..n-1 when k = 0 (a RangeIndex),
\* and with row k+1 carrying the label of row k otherwise
IndexOf(n, k) == [i \in 1..n |-> IF k > 0 /\ i = k + 1 THEN k - 1 ELSE i - 1]

DatasetX(vals, index) ==
    [cols |-> SampleCols,
     rows |-> [i \in DOMAIN vals |-> Row(index[i], [c \in SampleCols |-> vals[i]])]]

\* the targets: row i has the label 10 + i, on the index of X
DatasetY(index) == [i \in DOMAIN index |-> [id |-> index[i], label |-> 10 + i]]

EstimatorIdle ==
    /\ est = NewEstimator("std", <<"a">>, DefaultStdFactor)
    /\ fitCalled = FALSE
    /\ data = EmptyTable(TableCols)
    /\ call = NoCall

InitCompare ==
    /\ EstimatorIdle
    /\ \E p \in Preprocessors : comparer = NewComparer(NewModel, p)
    /\ \E n \in 0..MaxSamples : \E vals \in [1..n -> Values] : \E k \in 0..n :
          /\ k < n \/ n = 0
          /\ dsX = DatasetX(vals, IndexOf(n, k))
          /\ dsY = DatasetY(IndexOf(n, k))
    /\ afterSplit = NoRun
    /\ afterRaw = NoRun
    /\ afterFit = NoRun
    /\ afterRealign = NoRun
    /\ run = NoRun

\* comparer.compare(dsX, dsY, test_size, random_state)
Compare(test_size, random_state) ==
    /\ afterSplit' = StepSplit(StartCompare(comparer, test_size, random_state),
                               dsX, dsY)
    /\ afterRaw' = StepRaw(afterSplit')
    /\ afterFit' = IF TakesProcessedBranch(comparer)
                    THEN StepPreprocess(afterRaw', dsX) ELSE afterRaw'
    /\ afterRealign' = IF TakesProcessedBranch(comparer)
                        THEN StepRealign(afterFit') ELSE afterFit'
    /\ run' = StepEnd(IF TakesProcessedBranch(comparer)
                      THEN StepProcessed(afterRealign') ELSE afterRealign')
    /\ comparer' = ComparerAfter(comparer, run')
    /\ UNCHANGED <<estVars, dsX, dsY>>

NextCompare ==
    \E test_size \in TestSizes : \E random_state \in RandomStates :
        Compare(test_size, random_state)

SpecCompare == InitCompare /\ [][NextCompare]_vars


(***************************************************************************)
(* Properties of compare, checked under SpecCompare.                       *)
(***************************************************************************)
Called == run.stage # "none"

\* the call got as far as fitting the cloned preprocessor
ProcessorFitted == Called /\ run.processor # 0 /\ run.error # "processor.fit"

\* the datasets that differ from dsX in cell values only
Perturbed == {DatasetX(vals, Index(dsX)) : vals \in [1..NRows(dsX) -> Values]}

\* the bounds_ the cloned preprocessor holds after lines 115-117 of a call
\* of compare on (T, dsY) with the arguments of the last call
BoundsOfCall(T) ==
    LET sp == TrainTestSplit(T, dsY, run.test_size, run.random_state)
    IN  Fit(CloneObject(comparer.preprocessor),
            PreprocessorFitInput(T, sp.X_train, sp.X_test)).self.bounds_

SameTrainingPartition(T) ==
    TrainTestSplit(T, dsY, run.test_size, run.random_state).X_train
        = afterSplit.X_train

\* C2: the cloned preprocessor is fit on X_train and on nothing else, and a
\* call on a dataset with the same training partition and other values in
\* the test partition computes the same bounds_.
C2_BoundsDependOnTrainingPartitionOnly ==
    ProcessorFitted =>
        /\ \A i \in DOMAIN run.log :
              (run.log[i].op = "fit" /\ run.log[i].obj = run.processor)
                  => run.log[i].arg = afterSplit.X_train
        /\ \A T \in Perturbed :
              SameTrainingPartition(T)
                  => BoundsOfCall(T) = run.heap[run.processor].bounds_

\* a call whose test partition can be changed, training partition kept, so
\* that a fit on the whole dataset would give other bounds than the stored
C2_Witness ==
    /\ ProcessorFitted
    /\ run.heap[run.processor].bounds_ # EmptyDict
    /\ \E T \in Perturbed :
          /\ SameTrainingPartition(T)
          /\ T # dsX
          /\ Fit(CloneObject(comparer.preprocessor), T).self.bounds_
                # Fit(CloneObject(comparer.preprocessor), dsX).self.bounds_

\* every processed row has its label at the same position: same row
\* identifier, and the label that row had in the partition before filtering
Aligned(T_processed, y_processed, T_before, y_before) ==
    /\ Len(y_processed) = NRows(T_processed)
    /\ \A i \in 1..NRows(T_processed) :
          /\ i \in DOMAIN y_processed
          /\ y_processed[i].id = T_processed.rows[i].id
          /\ \E j \in 1..NRows(T_before) :
                /\ T_before.rows[j] = T_processed.rows[i]
                /\ y_before[j] = y_processed[i]

BothAligned ==
    /\ Aligned(run.X_train_processed, run.y_train_processed,
               afterSplit.X_train, afterSplit.y_train)
    /\ Aligned(run.X_test_processed, run.y_test_processed,
               afterSplit.X_test, afterSplit.y_test)

UniqueIndex(T) ==
    \A i, j \in 1..NRows(T) : T.rows[i].id = T.rows[j].id => i = j

\* C3 as stated: for every input, after the re-alignment the processed
\* labels are as many as the processed rows, train and test, and each
\* surviving row has the entry with its identifier and original label.
C3_Original_LabelsAligned == run.realigned => BothAligned

\* C3 amended: the same, for inputs whose row identifiers are unique.
C3_LabelsAlignedWhenIndexUnique ==
    (run.realigned /\ UniqueIndex(dsX)) => BothAligned

\* a call on uniquely indexed data in which the filter dropped a training
\* row that is not the last one, and kept others
C3_Witness ==
    /\ run.realigned
    /\ UniqueIndex(dsX)
    /\ 0 < NRows(run.X_train_processed)
    /\ NRows(run.X_train_processed) < NRows(afterSplit.X_train)
    /\ run.X_train_processed.rows
          # SubSeq(afterSplit.X_train.rows, 1, NRows(run.X_train_processed))
    /\ run.stage = "done"

Completed == run.stage = "done"

HasProcessedRow ==
    /\ Len(run.results) = 2
    /\ run.results[2].Dataset = "Processed"
    /\ run.results[2].Train_Samples = Len(run.X_train_processed.rows)
    /\ run.results[2].Test_Samples = Len(run.X_test_processed.rows)

HasRawRowFirst ==
    /\ Len(run.results) \in {1, 2}
    /\ run.results[1].Dataset = "Raw"
    /\ run.results[1].Train_Samples = Len(afterSplit.X_train.rows)
    /\ run.results[1].Test_Samples = Len(afterSplit.X_test.rows)
    /\ Len(afterSplit.X_train.rows) + Len(afterSplit.X_test.rows) = NRows(dsX)

\* C6 as stated: the result table of a completed call has the "Raw" row
\* first, with the unfiltered row counts, and a "Processed" row after it,
\* with the post-filter row counts, if and only if a preprocessor was
\* supplied.
C6_Original_ProcessedRowIffSupplied ==
    Completed =>
        /\ comparer.results_ = <<run.results>>
        /\ HasRawRowFirst
        /\ HasProcessedRow = (comparer.preprocessor # None)

\* what the code does: the "Processed" row is there if and only if the
\* preprocessor is true in a boolean context
C6_ProcessedRowIffTruthy ==
    Completed =>
        /\ comparer.results_ = <<run.results>>
        /\ HasRawRowFirst
        /\ HasProcessedRow = Truthy(comparer.preprocessor)

Fits(r) == {i \in DOMAIN r.log : r.log[i].op = "fit"}

Clones(r) == {i \in DOMAIN r.log : r.log[i].op = "clone"}

\* C9: every fit of a call goes to an object cloned earlier in that call,
\* never to an object the comparer holds; no object is fit twice or used
\* to score or transform before its fit; a completed call with a processed
\* branch fit three distinct clones; and the comparer's model and
\* preprocessor stay as they were constructed.
C9_CloneDiscipline ==
    /\ comparer.model = NewModel
    /\ comparer.preprocessor \in Preprocessors
    /\ Called =>
          /\ \A i \in Fits(run) :
                /\ run.log[i].obj > 2
                /\ \E j \in Clones(run) : j < i /\ run.log[j].obj = run.log[i].obj
          /\ \A i, j \in Fits(run) : run.log[i].obj = run.log[j].obj => i = j
          /\ \A i, j \in Clones(run) : run.log[i].obj = run.log[j].obj => i = j
          /\ \A i \in DOMAIN run.log :
                run.log[i].op \in {"score", "transform"}
                    => \E j \in Fits(run) : j < i /\ run.log[j].obj = run.log[i].obj
          /\ (Completed /\ TakesProcessedBranch(comparer))
                => /\ {run.log[i].obj : i \in Fits(run)}
                        = {run.raw_model, run.processor, run.processed_model}
                   /\ Cardinality({run.raw_model, run.processor,
                                   run.processed_model}) = 3

\* a completed call with a processed branch: three clones fit, rows dropped
C9_Witness ==
    /\ Completed
    /\ Cardinality(Fits(run)) = 3
    /\ run.heap[run.processor].bounds_ # EmptyDict
    /\ run.heap[run.raw_model].fitted
    /\ run.heap[run.processed_model].fitted
    /\ NRows(run.X_test_processed) < NRows(afterSplit.X_test)

\* C10: a call that raises leaves results_ as it was; a call that runs to
\* its end replaces results_ by that call's result table.
C10_ResultsReplacedOnlyOnCompletion ==
    [][/\ run'.stage = "raised" => comparer'.results_ = comparer.results_
       /\ run'.stage = "done" => comparer'.results_ = <<run'.results>>
       /\ run'.stage \in {"raised", "done"}]_vars

\* a call raised in its processed branch, after the raw branch had scored,
\* on a comparer that holds the results of an earlier call
C10_Witness ==
    /\ run.stage = "raised"
    /\ run.error \in {"processed_model.fit", "processed_model.score"}
    /\ run.results # <<>>
    /\ comparer.results_ # NoResults
    /\ Len(comparer.results_[1]) = 2
    /\ comparer.results_[1] # run.results

====
